---- MODULE Spec2Model ----
(***************************************************************************)
(* A model of the UWB HAL chip session of uwb/aidl/default/src/uwb_chip.rs: *)
(* the session state behind its mutex, open(), close() with the reset      *)
(* handshake, the binder death recipient, the UCI reader task, and the     *)
(* serial device as the environment.                                       *)
(***************************************************************************)
EXTENDS Naturals, Sequences, FiniteSets

\* ------------------------------------------------------------------ bounds

\* open() calls that spawn a reader task in one behaviour.
MaxOpens == 2
\* Unsolicited frames the device starts in one behaviour of the whole system.
MaxSessionFrames == 1
\* Frames the device sends in one behaviour of the reader-only specification.
MaxFrames == 2
\* The device puts the last `fine' bytes of its pending output on the wire
\* one byte at a time and what comes before them in one burst: SessionFine
\* in the whole system, ReaderFine in the reader-only specification.
SessionFine == 2
ReaderFine == 10
\* The same in the specifications of the other operations: the device's
\* output arrives whole.
OpsFine == 0
\* Bytes the serial line holds before a write to it fails.
TxCapacity == 5
\* Bytes the serial line holds unread before the device must wait, in the
\* specification with fairness.
RxCapacity == 6
\* coreInit() calls that are answered in one behaviour.
MaxCoreInits == 1

\* ------------------------------------------------------- program constants

UWB_HEADER_SIZE == 4
MESSAGE_TYPE_MASK == 224
DATA_MESSAGE_TYPE == 0
DEVICE_RESET_RSP == <<64, 0, 0, 1, 0>>
DEVICE_STATUS_NTF == <<96, 1, 0, 1, 1>>
\* packet_vec: the encoded DeviceResetCmd (UwbsReset), one HAL packet.
ResetPackets == << <<32, 0, 0, 1, 0>> >>

\* ---------------------------------------------------------------- helpers

Min(a, b) == IF a < b THEN a ELSE b

Take(s, n) == SubSeq(s, 1, n)

Drop(s, n) == SubSeq(s, n + 1, Len(s))

RECURSIVE Flatten(_)
Flatten(ss) == IF ss = <<>> THEN <<>> ELSE Head(ss) \o Flatten(Tail(ss))

RECURSIVE TotalLen(_)
TotalLen(ss) == IF ss = <<>> THEN 0 ELSE Len(Head(ss)) + TotalLen(Tail(ss))

\* a & b on the low n bits.
RECURSIVE BitAnd(_, _, _)
BitAnd(a, b, n) ==
    IF n = 0 THEN 0
    ELSE (a % 2) * (b % 2) + 2 * BitAnd(a \div 2, b \div 2, n - 1)

\* mt = (common_header & MESSAGE_TYPE_MASK) >> 5
MessageType(b0) == BitAnd(b0, MESSAGE_TYPE_MASK, 8) \div 32

\* u16::from_le_bytes([lo, hi])
U16FromLe(lo, hi) == (lo + 256 * hi) % 65536

\* Mutant of PayloadLength: the 8-bit length of byte 3 for every type.
PayloadLengthByte3(hdr) == hdr[4]

\* payload_length, from a complete 4-byte header.
PayloadLength(hdr) ==
    IF MessageType(hdr[1]) = DATA_MESSAGE_TYPE
    THEN U16FromLe(hdr[3], hdr[4])
    ELSE hdr[4]

\* length = payload_length + UWB_HEADER_SIZE
FrameLength(hdr) == PayloadLength(hdr) + UWB_HEADER_SIZE

ResetBytes == Flatten(ResetPackets)

Confirmation == DEVICE_RESET_RSP \o DEVICE_STATUS_NTF

\* ------------------------------------------------------------ frame inputs

Zeros(n) == [i \in 1..n |-> 0]

DataFrame == <<0, 0, 2, 0, 170, 187>>

\* A data frame whose length needs the high byte: L = 256.
LongDataFrame == <<0, 0, 0, 1>> \o Zeros(256)

\* Frames the device may send unasked during a session.
SessionFrames == {DataFrame, DEVICE_STATUS_NTF}

\* Frames of the reader-only specification: data frames (also with the low
\* header bits set), non-data frames whose byte 2 is not zero.
ReaderFrames ==
    {DataFrame, <<1, 0, 0, 0>>, LongDataFrame, <<64, 0, 1, 1, 7>>,
     <<33, 0, 0, 0>>, DEVICE_STATUS_NTF}

\* ------------------------------------------------------------------ state

Readers == 1..MaxOpens

\* The messages a client sends (here CoreGetDeviceInfoCmd), and the session
\* ids it passes.
SendData == {<<33, 0, 0, 0>>}
SessionIds == {0, 1}

\* Number of elements of the sequence s equal to x.
CountOf(s, x) == Cardinality({i \in 1..Len(s) : s[i] = x})

VARIABLES
    state,        \* State: "Closed" | "Opened"
    handle,       \* State::Opened.handle / token: the session's reader, 0 if Closed
    linked,       \* State::Opened.death_recipient is linked to the client
    joined,       \* State::Opened.handle has been awaited to completion
    lockOwner,    \* holder of the state mutex across steps: "none" | "close"
    closePc,      \* position of the close() call
    chunkIdx,     \* close(): next hal packet to write
    closeTx,      \* close(): bytes of the reset command written so far
    drainBuf,     \* consume_device_reset_rsp_and_ntf: bytes read so far
    deathPending, \* sessions whose death recipient was dispatched, not yet run
    dead,         \* sessions whose client process has died
    pc,           \* reader task position
    buffer,       \* reader task: bytes of the frame being read
    cancelled,    \* reader task's CancellationToken has been cancelled
    ready,        \* reader task's AsyncFd read readiness
    got,          \* reader task: bytes consumed from the transport
    deliv,        \* reader task: frames passed to onUciMessage
    rx,           \* bytes readable from the serial device
    tx,           \* bytes written to the serial device, not yet taken by it
    devOut,       \* bytes the device has committed to send
    sent,         \* unsolicited frames the device has started
    opens,        \* reader tasks spawned so far
    lastRet,      \* last return of a public operation
    halEvents,    \* onHalEvent calls that succeeded
    hsCount,      \* handshakes (reset write and drain) run in this session
    raced,        \* close() and the death recipient were pending together
    cancelWait,   \* the token was cancelled while the reader sat in select!
    aborted,      \* the process has panicked
    hup,          \* the serial device has hung up: reads return Ok(0)
    retVal        \* the i32 of the last Ok(i32) a public operation returned

sessionVars == <<state, handle, linked, joined>>
closeVars == <<lockOwner, closePc, chunkIdx, closeTx, drainBuf>>
readerVars == <<pc, buffer, cancelled, ready, got, deliv>>
deviceVars == <<rx, tx, devOut, sent>>
ghostVars == <<lastRet, halEvents, hsCount, raced, cancelWait>>
extVars == <<hup, retVal>>

vars ==
    <<state, handle, linked, joined, lockOwner, closePc, chunkIdx, closeTx,
      drainBuf, deathPending, dead, pc, buffer, cancelled, ready, got, deliv,
      rx, tx, devOut, sent, opens, lastRet, halEvents, hsCount, raced,
      cancelWait, aborted, hup, retVal>>

Ret(op, res) == [op |-> op, res |-> res]

\* UwbChip::new
Init ==
    /\ state = "Closed" /\ handle = 0 /\ linked = FALSE /\ joined = FALSE
    /\ lockOwner = "none" /\ closePc = "idle" /\ chunkIdx = 1
    /\ closeTx = <<>> /\ drainBuf = <<>>
    /\ deathPending = {} /\ dead = {}
    /\ pc = [r \in Readers |-> "idle"]
    /\ buffer = [r \in Readers |-> <<>>]
    /\ cancelled = [r \in Readers |-> FALSE]
    /\ ready = [r \in Readers |-> FALSE]
    /\ got = [r \in Readers |-> 0]
    /\ deliv = [r \in Readers |-> <<>>]
    /\ rx = <<>> /\ tx = <<>> /\ devOut = <<>> /\ sent = <<>>
    /\ opens = 0
    /\ lastRet = Ret("new", "Ok")
    /\ halEvents = <<>>
    /\ hsCount = 0 /\ raced = FALSE
    /\ cancelWait = [r \in Readers |-> FALSE]
    /\ aborted = FALSE
    /\ hup = FALSE
    /\ retVal = 0

\* A spawned reader task that has not returned.
ReaderAlive(r) == pc[r] \in {"read", "select", "hdr", "payload"}

\* A binder callback to a dead client fails; one to a live client may fail.
CallbackOutcomes(r) == IF r \in dead THEN {FALSE} ELSE {TRUE, FALSE}

\* ----------------------------------------------------------- reader task

\* client_callbacks.onUciMessage(&buffer).unwrap()
OnUciMessage(r, buf, ok) ==
    IF ok
    THEN /\ deliv' = [deliv EXCEPT ![r] = Append(@, buf)]
         /\ buffer' = [buffer EXCEPT ![r] = <<>>]
         /\ pc' = [pc EXCEPT ![r] = "read"]
         /\ UNCHANGED aborted
    ELSE /\ aborted' = TRUE
         /\ buffer' = [buffer EXCEPT ![r] = buf]
         /\ UNCHANGED <<pc, deliv>>

\* Mutant of ReaderTake: the rest of a truncated header is read into the
\* start of the buffer, over the bytes already there.
ReaderTakeOverwrite(r, n, ok) ==
    LET buf == IF pc[r] = "hdr" THEN Take(rx, n)
               ELSE buffer[r] \o Take(rx, n)
    IN
    /\ rx' = Drop(rx, n)
    /\ got' = [got EXCEPT ![r] = @ + n]
    /\ IF Len(buf) < UWB_HEADER_SIZE
       THEN /\ pc' = [pc EXCEPT ![r] = "hdr"]
            /\ buffer' = [buffer EXCEPT ![r] = buf]
            /\ UNCHANGED <<deliv, aborted>>
       ELSE IF Len(buf) < FrameLength(buf)
       THEN /\ pc' = [pc EXCEPT ![r] = "payload"]
            /\ buffer' = [buffer EXCEPT ![r] = buf]
            /\ UNCHANGED <<deliv, aborted>>
       ELSE OnUciMessage(r, buf, ok)

\* The reader takes n bytes off the transport and goes on to the next read
\* it has to wait for: the rest of the header, the payload, or the next frame.
ReaderTake(r, n, ok) ==
    LET buf == buffer[r] \o Take(rx, n) IN
    /\ rx' = Drop(rx, n)
    /\ got' = [got EXCEPT ![r] = @ + n]
    /\ IF Len(buf) < UWB_HEADER_SIZE
       THEN /\ pc' = [pc EXCEPT ![r] = "hdr"]
            /\ buffer' = [buffer EXCEPT ![r] = buf]
            /\ UNCHANGED <<deliv, aborted>>
       ELSE IF Len(buf) < FrameLength(buf)
       THEN /\ pc' = [pc EXCEPT ![r] = "payload"]
            /\ buffer' = [buffer EXCEPT ![r] = buf]
            /\ UNCHANGED <<deliv, aborted>>
       ELSE OnUciMessage(r, buf, ok)

\* Mutant of ReaderRead: the token is looked at after the first read, and a
\* cancelled reader returns with what it has read.
ReaderReadThenCheck(r) ==
    /\ ~aborted
    /\ pc[r] = "read"
    /\ IF rx = <<>>
       THEN /\ pc' = [pc EXCEPT ![r] = IF hup THEN "done" ELSE "select"]
            /\ UNCHANGED <<buffer, got, deliv, rx, aborted>>
       ELSE IF cancelled[r]
       THEN LET n == Min(Len(rx), UWB_HEADER_SIZE) IN
            /\ rx' = Drop(rx, n)
            /\ got' = [got EXCEPT ![r] = @ + n]
            /\ buffer' = [buffer EXCEPT ![r] = Take(rx, n)]
            /\ pc' = [pc EXCEPT ![r] = "done"]
            /\ UNCHANGED <<deliv, aborted>>
       ELSE \E ok \in CallbackOutcomes(r) :
                ReaderTake(r, Min(Len(rx), UWB_HEADER_SIZE), ok)
    /\ UNCHANGED <<sessionVars, closeVars, deathPending, dead, cancelled,
                   ready, tx, devOut, sent, opens, ghostVars>>
    /\ UNCHANGED extVars

\* reader.get_mut().read(&mut buffer) at the top of the frame loop.
ReaderRead(r) ==
    /\ ~aborted
    /\ pc[r] = "read"
    /\ IF rx = <<>>
       THEN /\ pc' = [pc EXCEPT ![r] = IF hup THEN "done" ELSE "select"]
            /\ UNCHANGED <<buffer, got, deliv, rx, aborted>>
       ELSE \E ok \in CallbackOutcomes(r) :
                ReaderTake(r, Min(Len(rx), UWB_HEADER_SIZE), ok)
    /\ UNCHANGED <<sessionVars, closeVars, deathPending, dead, cancelled,
                   ready, tx, devOut, sent, opens, ghostVars>>
    /\ UNCHANGED extVars

\* The branches of select! that are ready.
SelectBranches(r) ==
    {b \in {"cancelled", "readable"} :
        \/ b = "cancelled" /\ cancelled[r]
        \/ b = "readable" /\ ready[r]}

\* select! { cancelled() => return, readable() => guard.clear_ready() }
ReaderSelect(r) ==
    /\ ~aborted
    /\ pc[r] = "select"
    /\ \E b \in SelectBranches(r) :
         IF b = "cancelled"
         THEN /\ pc' = [pc EXCEPT ![r] = "done"]
              /\ UNCHANGED ready
         ELSE /\ pc' = [pc EXCEPT ![r] = "read"]
              /\ ready' = [ready EXCEPT ![r] = FALSE]
    /\ UNCHANGED <<sessionVars, closeVars, deathPending, dead, buffer,
                   cancelled, got, deliv, deviceVars, opens, ghostVars,
                   aborted>>
    /\ UNCHANGED extVars

\* Mutant of ReaderReadExact: a read_exact that gives up when the token is
\* cancelled.
ReaderReadExactCancellable(r) ==
    /\ ~aborted
    /\ pc[r] \in {"hdr", "payload"}
    /\ IF cancelled[r]
       THEN /\ pc' = [pc EXCEPT ![r] = "done"]
            /\ UNCHANGED <<buffer, got, deliv, rx, aborted>>
       ELSE /\ rx # <<>>
            /\ LET need == IF pc[r] = "hdr" THEN UWB_HEADER_SIZE
                           ELSE FrameLength(buffer[r])
               IN \E ok \in CallbackOutcomes(r) :
                      ReaderTake(r, Min(Len(rx), need - Len(buffer[r])), ok)
    /\ UNCHANGED <<sessionVars, closeVars, deathPending, dead, cancelled,
                   ready, tx, devOut, sent, opens, ghostVars>>
    /\ UNCHANGED extVars

\* Mutant of ReaderReadExact: at end of file the reader returns instead of
\* panicking.
ReaderReadExactEofReturns(r) ==
    /\ ~aborted
    /\ pc[r] \in {"hdr", "payload"}
    /\ rx # <<>> \/ hup
    /\ IF rx = <<>>
       THEN /\ pc' = [pc EXCEPT ![r] = "done"]
            /\ UNCHANGED <<aborted, buffer, got, deliv, rx>>
       ELSE LET need == IF pc[r] = "hdr" THEN UWB_HEADER_SIZE
                        ELSE FrameLength(buffer[r])
            IN \E ok \in CallbackOutcomes(r) :
                   ReaderTake(r, Min(Len(rx), need - Len(buffer[r])), ok)
    /\ UNCHANGED <<sessionVars, closeVars, deathPending, dead, cancelled,
                   ready, tx, devOut, sent, opens, ghostVars>>
    /\ UNCHANGED extVars

\* One read of read_exact in the reader (rest of the header, or the
\* payload) that is not a WouldBlock retry: bytes are taken, or Ok(0) at
\* end of file panics.
ReaderReadExact(r) ==
    /\ ~aborted
    /\ pc[r] \in {"hdr", "payload"}
    /\ rx # <<>> \/ hup
    /\ IF rx = <<>>
       THEN /\ aborted' = TRUE
            /\ UNCHANGED <<pc, buffer, got, deliv, rx>>
       ELSE LET need == IF pc[r] = "hdr" THEN UWB_HEADER_SIZE
                        ELSE FrameLength(buffer[r])
            IN \E ok \in CallbackOutcomes(r) :
                   ReaderTake(r, Min(Len(rx), need - Len(buffer[r])), ok)
    /\ UNCHANGED <<sessionVars, closeVars, deathPending, dead, cancelled,
                   ready, tx, devOut, sent, opens, ghostVars>>
    /\ UNCHANGED extVars

\* ---------------------------------------------------------------- device

\* The device starts sending a frame of its own.
DeviceStartFrame(f, limit) ==
    /\ ~aborted
    /\ ~hup
    /\ state = "Opened"
    /\ devOut = <<>>
    /\ Len(sent) < limit
    /\ devOut' = f
    /\ sent' = Append(sent, f)
    /\ UNCHANGED <<sessionVars, closeVars, deathPending, dead, readerVars,
                   rx, tx, opens, ghostVars, aborted>>
    /\ UNCHANGED extVars

\* Bytes of the device's output reach the host; every registered AsyncFd
\* is told the descriptor is readable.
DeviceEmit(fine) ==
    /\ ~aborted
    /\ ~hup
    /\ devOut # <<>>
    /\ LET k == IF Len(devOut) > fine THEN Len(devOut) - fine
                ELSE 1
       IN /\ rx' = rx \o Take(devOut, k)
          /\ devOut' = Drop(devOut, k)
    /\ ready' = [r \in Readers |-> ReaderAlive(r) \/ ready[r]]
    /\ UNCHANGED <<sessionVars, closeVars, deathPending, dead, pc, buffer,
                   cancelled, got, deliv, tx, sent, opens, ghostVars,
                   aborted>>
    /\ UNCHANGED extVars

\* The device takes a complete DeviceResetCmd and answers with
\* DeviceResetRsp, then DeviceStatusNtf.
DeviceReset ==
    /\ ~aborted
    /\ ~hup
    /\ Len(tx) >= Len(ResetBytes)
    /\ Take(tx, Len(ResetBytes)) = ResetBytes
    /\ tx' = Drop(tx, Len(ResetBytes))
    /\ devOut' = devOut \o Confirmation
    /\ UNCHANGED <<sessionVars, closeVars, deathPending, dead, readerVars,
                   rx, sent, opens, ghostVars, aborted>>
    /\ UNCHANGED extVars

\* The other end of the serial line goes away: what it had not yet put on
\* the line is lost, every later read of an empty line returns Ok(0), and
\* every registered AsyncFd is told the descriptor is readable.
DeviceHangup ==
    /\ ~aborted
    /\ ~hup
    /\ hup' = TRUE
    /\ devOut' = <<>>
    /\ ready' = [r \in Readers |-> ReaderAlive(r) \/ ready[r]]
    /\ UNCHANGED <<sessionVars, closeVars, deathPending, dead, pc, buffer,
                   cancelled, got, deliv, rx, tx, sent, opens, ghostVars,
                   aborted, retVal>>

\* ----------------------------------------------------------------- open

\* How far open() gets: the transport cannot be opened, link_to_death
\* fails, try_clone fails, onHalEvent(OPEN_CPLT) fails, or all succeed.
OpenOutcomes == {"transport", "link", "clone", "cplt", "ok"}

\* tokio::task::spawn of the reader with a fresh token and its own AsyncFd.
SpawnReader(r) ==
    /\ pc' = [pc EXCEPT ![r] = "read"]
    /\ ready' = [ready EXCEPT ![r] = (rx # <<>>)]
    /\ opens' = r

\* Mutant of Open: no check that the session is already open.
OpenUnchecked(out) ==
    /\ ~aborted
    /\ lockOwner = "none"
    /\ IF out \in {"transport", "link", "clone"}
       THEN /\ lastRet' = Ret("open", "Error")
            /\ UNCHANGED <<sessionVars, pc, ready, opens, halEvents, hsCount,
                           raced>>
       ELSE /\ opens < MaxOpens
            /\ SpawnReader(opens + 1)
            /\ IF out = "cplt"
               THEN /\ lastRet' = Ret("open", "Error")
                    /\ UNCHANGED <<sessionVars, halEvents, hsCount, raced>>
               ELSE /\ state' = "Opened"
                    /\ handle' = opens + 1
                    /\ linked' = TRUE
                    /\ joined' = FALSE
                    /\ halEvents' = Append(halEvents, "OPEN_CPLT")
                    /\ hsCount' = 0
                    /\ raced' = FALSE
                    /\ lastRet' = Ret("open", "Ok")
    /\ UNCHANGED <<closeVars, deathPending, dead, buffer, cancelled, got,
                   deliv, deviceVars, cancelWait, aborted>>
    /\ UNCHANGED extVars

\* UwbChip::open, under the state lock from start to end.
Open(out) ==
    /\ ~aborted
    /\ lockOwner = "none"
    /\ IF state = "Opened"
       THEN /\ lastRet' = Ret("open", "IllegalState")
            /\ UNCHANGED <<sessionVars, pc, ready, opens, halEvents, hsCount,
                           raced>>
       ELSE IF out \in {"transport", "link", "clone"}
       THEN /\ lastRet' = Ret("open", "Error")
            /\ UNCHANGED <<sessionVars, pc, ready, opens, halEvents, hsCount,
                           raced>>
       ELSE /\ opens < MaxOpens
            /\ SpawnReader(opens + 1)
            /\ IF out = "cplt"
               THEN /\ lastRet' = Ret("open", "Error")
                    /\ UNCHANGED <<sessionVars, halEvents, hsCount, raced>>
               ELSE /\ state' = "Opened"
                    /\ handle' = opens + 1
                    /\ linked' = TRUE
                    /\ joined' = FALSE
                    /\ halEvents' = Append(halEvents, "OPEN_CPLT")
                    /\ hsCount' = 0
                    /\ raced' = FALSE
                    /\ lastRet' = Ret("open", "Ok")
    /\ UNCHANGED <<closeVars, deathPending, dead, buffer, cancelled, got,
                   deliv, deviceVars, cancelWait, aborted>>
    /\ UNCHANGED extVars

\* ---------------------------------------------------------------- close

\* close() is called and queues for the state lock.
CloseCall ==
    /\ ~aborted
    /\ closePc = "idle"
    /\ closePc' = "lock"
    /\ raced' = (raced \/ (state = "Opened" /\ handle \in deathPending))
    /\ UNCHANGED <<sessionVars, lockOwner, chunkIdx, closeTx, drainBuf,
                   deathPending, dead, readerVars, deviceVars, opens, lastRet,
                   halEvents, hsCount, cancelWait, aborted>>
    /\ UNCHANGED extVars

\* close() leaves with a result, releasing the lock.
CloseReturn(res) ==
    /\ lastRet' = Ret("close", res)
    /\ closePc' = "idle"
    /\ lockOwner' = "none"

\* token.cancel()
CancelToken(r) ==
    /\ cancelled' = [cancelled EXCEPT ![r] = TRUE]
    /\ cancelWait' = [cancelWait EXCEPT ![r] = @ \/ (pc[r] = "select")]

\* Mutant of CloseAcquire: UwbChip::close hands every state to State::close,
\* which returns Ok(()) for a closed session.
CloseAcquireUnchecked(unlinkOk) ==
    /\ ~aborted
    /\ closePc = "lock"
    /\ lockOwner = "none"
    /\ IF state # "Opened"
       THEN /\ CloseReturn("Ok")
            /\ UNCHANGED <<linked, deathPending, cancelled, cancelWait,
                           chunkIdx, closeTx, drainBuf>>
       ELSE IF ~(unlinkOk /\ linked)
       THEN /\ CloseReturn("Error")
            /\ UNCHANGED <<linked, deathPending, cancelled, cancelWait,
                           chunkIdx, closeTx, drainBuf>>
       ELSE /\ linked' = FALSE
            /\ deathPending' = deathPending \ {handle}
            /\ CancelToken(handle)
            /\ lockOwner' = "close"
            /\ closePc' = "join"
            /\ chunkIdx' = 1
            /\ closeTx' = <<>>
            /\ drainBuf' = <<>>
            /\ UNCHANGED lastRet
    /\ UNCHANGED <<state, handle, joined, dead, pc, buffer,
                   ready, got, deliv, deviceVars, opens, halEvents, hsCount,
                   raced, aborted>>
    /\ UNCHANGED extVars

\* UwbChip::close takes the lock and checks the state; State::close unlinks
\* the death recipient and cancels the token. An unlink_to_death that
\* succeeds withdraws the recipient: it is not called afterwards.
CloseAcquire(unlinkOk) ==
    /\ ~aborted
    /\ closePc = "lock"
    /\ lockOwner = "none"
    /\ IF state # "Opened"
       THEN /\ CloseReturn("IllegalState")
            /\ UNCHANGED <<linked, deathPending, cancelled, cancelWait,
                           chunkIdx, closeTx, drainBuf>>
       ELSE IF ~(unlinkOk /\ linked)
       THEN /\ CloseReturn("Error")
            /\ UNCHANGED <<linked, deathPending, cancelled, cancelWait,
                           chunkIdx, closeTx, drainBuf>>
       ELSE /\ linked' = FALSE
            /\ deathPending' = deathPending \ {handle}
            /\ CancelToken(handle)
            /\ lockOwner' = "close"
            /\ closePc' = "join"
            /\ chunkIdx' = 1
            /\ closeTx' = <<>>
            /\ drainBuf' = <<>>
            /\ UNCHANGED lastRet
    /\ UNCHANGED <<state, handle, joined, dead, pc, buffer,
                   ready, got, deliv, deviceVars, opens, halEvents, hsCount,
                   raced, aborted>>
    /\ UNCHANGED extVars

\* Mutant of CloseJoin: the handshake starts without awaiting the handle.
CloseJoinNoWait ==
    /\ ~aborted
    /\ closePc = "join"
    /\ closePc' = "write"
    /\ UNCHANGED <<sessionVars, lockOwner, chunkIdx, closeTx, drainBuf,
                   deathPending, dead, readerVars, deviceVars, opens,
                   ghostVars, aborted>>
    /\ UNCHANGED extVars

\* handle.await.unwrap(): resumes once the reader task has returned.
CloseJoin ==
    /\ ~aborted
    /\ closePc = "join"
    /\ IF joined
       THEN /\ aborted' = TRUE
            /\ UNCHANGED <<joined, closePc>>
       ELSE /\ pc[handle] = "done"
            /\ joined' = TRUE
            /\ closePc' = "write"
            /\ UNCHANGED aborted
    /\ UNCHANGED <<state, handle, linked, lockOwner, chunkIdx, closeTx,
                   drainBuf, deathPending, dead, readerVars, deviceVars,
                   opens, ghostVars>>
    /\ UNCHANGED extVars

\* serial.write(&hal_packet...) of the next packet: n = 0 stands for an
\* error, n > 0 for Ok(n), n bytes of the packet accepted.
CloseWrite(n) ==
    /\ ~aborted
    /\ closePc = "write"
    /\ n \in 0..Len(ResetPackets[chunkIdx])
    /\ IF n = 0
       THEN /\ CloseReturn("Error")
            /\ UNCHANGED <<tx, closeTx, chunkIdx>>
       ELSE /\ tx' = tx \o Take(ResetPackets[chunkIdx], n)
            /\ closeTx' = closeTx \o Take(ResetPackets[chunkIdx], n)
            /\ chunkIdx' = chunkIdx + 1
            /\ closePc' = IF chunkIdx = Len(ResetPackets) THEN "clone"
                          ELSE "write"
            /\ UNCHANGED <<lockOwner, lastRet>>
    /\ UNCHANGED <<sessionVars, drainBuf, deathPending, dead, readerVars, rx,
                   devOut, sent, opens, halEvents, hsCount, raced, cancelWait,
                   aborted>>
    /\ UNCHANGED extVars

\* serial.try_clone() for the confirmation read.
CloseClone(ok) ==
    /\ ~aborted
    /\ closePc = "clone"
    /\ IF ok
       THEN /\ closePc' = "drain"
            /\ UNCHANGED <<lockOwner, lastRet>>
       ELSE CloseReturn("Error")
    /\ UNCHANGED <<sessionVars, chunkIdx, closeTx, drainBuf, deathPending,
                   dead, readerVars, deviceVars, opens, halEvents, hsCount,
                   raced, cancelWait, aborted>>
    /\ UNCHANGED extVars

\* consume_device_reset_rsp_and_ntf: one read of its read_exact that is not
\* a WouldBlock retry (Ok(0) at end of file panics), and, once the 10 bytes
\* are in, the two assert_eq!.
CloseDrain ==
    /\ ~aborted
    /\ closePc = "drain"
    /\ rx # <<>> \/ hup
    /\ IF rx = <<>>
       THEN /\ aborted' = TRUE
            /\ UNCHANGED <<rx, drainBuf, closePc, hsCount>>
       ELSE
       LET n == Min(Len(rx), Len(Confirmation) - Len(drainBuf))
           buf == drainBuf \o Take(rx, n)
       IN /\ rx' = Drop(rx, n)
          /\ drainBuf' = buf
          /\ IF Len(buf) < Len(Confirmation)
             THEN UNCHANGED <<closePc, hsCount, aborted>>
             ELSE IF /\ Take(buf, Len(DEVICE_RESET_RSP)) = DEVICE_RESET_RSP
                     /\ Drop(buf, Len(DEVICE_RESET_RSP)) = DEVICE_STATUS_NTF
             THEN /\ closePc' = "cplt"
                  /\ hsCount' = hsCount + 1
                  /\ UNCHANGED aborted
             ELSE /\ aborted' = TRUE
                  /\ UNCHANGED <<closePc, hsCount>>
    /\ UNCHANGED <<sessionVars, lockOwner, chunkIdx, closeTx, deathPending,
                   dead, readerVars, tx, devOut, sent, opens, lastRet,
                   halEvents, raced, cancelWait>>
    /\ UNCHANGED extVars

\* callbacks.onHalEvent(CLOSE_CPLT)?; *self = State::Closed
CloseFinish(ok) ==
    /\ ~aborted
    /\ closePc = "cplt"
    /\ ok \in CallbackOutcomes(handle)
    /\ IF ok
       THEN /\ halEvents' = Append(halEvents, "CLOSE_CPLT")
            /\ state' = "Closed"
            /\ handle' = 0
            /\ joined' = FALSE
            /\ CloseReturn("Ok")
       ELSE /\ CloseReturn("Error")
            /\ UNCHANGED <<state, handle, joined, halEvents>>
    /\ UNCHANGED <<linked, chunkIdx, closeTx, drainBuf, deathPending, dead,
                   readerVars, deviceVars, opens, hsCount, raced, cancelWait,
                   aborted>>
    /\ UNCHANGED extVars

\* ------------------------------------------------------- death recipient

\* The client of the open session dies; binder dispatches the death
\* recipient if it is still linked.
ClientDies ==
    /\ ~aborted
    /\ state = "Opened"
    /\ handle \notin dead
    /\ dead' = dead \cup {handle}
    /\ deathPending' = IF linked THEN deathPending \cup {handle}
                       ELSE deathPending
    /\ raced' = (raced \/ (linked /\ closePc = "lock"))
    /\ UNCHANGED <<sessionVars, closeVars, readerVars, deviceVars, opens,
                   lastRet, halEvents, hsCount, cancelWait, aborted>>
    /\ UNCHANGED extVars

\* The DeathRecipient closure of session s: blocking_lock, then cancel the
\* token of whatever session is open and store State::Closed.
DeathRecipient(s) ==
    /\ ~aborted
    /\ s \in deathPending
    /\ lockOwner = "none"
    /\ deathPending' = deathPending \ {s}
    /\ IF state = "Opened"
       THEN /\ CancelToken(handle)
            /\ state' = "Closed"
            /\ handle' = 0
            /\ linked' = FALSE
            /\ joined' = FALSE
       ELSE UNCHANGED <<sessionVars, cancelled, cancelWait>>
    /\ UNCHANGED <<closeVars, dead, pc, buffer, ready, got, deliv,
                   deviceVars, opens, lastRet, halEvents, hsCount, raced,
                   aborted>>
    /\ UNCHANGED extVars

\* ----------------------------------------------------- other operations

\* Mutant of SendUciMessage: one write instead of write_all, the short
\* write reported as success.
SendUciMessageShort(data, k) ==
    /\ ~aborted
    /\ lockOwner = "none"
    /\ k \in 0..Len(data)
    /\ IF state = "Opened"
       THEN /\ Len(tx) + k <= TxCapacity
            /\ tx' = tx \o Take(data, k)
            /\ lastRet' = Ret("sendUciMessage", "Ok")
            /\ retVal' = Len(data)
       ELSE /\ k = 0
            /\ lastRet' = Ret("sendUciMessage", "IllegalState")
            /\ UNCHANGED <<tx, retVal>>
    /\ UNCHANGED <<sessionVars, closeVars, deathPending, dead, readerVars,
                   rx, devOut, sent, opens, halEvents, hsCount, raced,
                   cancelWait, aborted, hup>>

\* Mutant of SendUciMessage: the state read without taking the lock.
SendUciMessageNoLock(data, k) ==
    /\ ~aborted
    /\ k \in 0..Len(data)
    /\ IF state = "Opened"
       THEN /\ Len(tx) + k <= TxCapacity
            /\ tx' = tx \o Take(data, k)
            /\ IF k = Len(data)
               THEN /\ lastRet' = Ret("sendUciMessage", "Ok")
                    /\ retVal' = Len(data)
               ELSE /\ lastRet' = Ret("sendUciMessage", "Error")
                    /\ UNCHANGED retVal
       ELSE /\ k = 0
            /\ lastRet' = Ret("sendUciMessage", "IllegalState")
            /\ UNCHANGED <<tx, retVal>>
    /\ UNCHANGED <<sessionVars, closeVars, deathPending, dead, readerVars,
                   rx, devOut, sent, opens, halEvents, hsCount, raced,
                   cancelWait, aborted, hup>>

\* sendUciMessage(data), the state lock held throughout: write_all puts k
\* bytes on the line; all of them and it returns Ok(data.len()), fewer and
\* the write error is returned.
SendUciMessage(data, k) ==
    /\ ~aborted
    /\ lockOwner = "none"
    /\ k \in 0..Len(data)
    /\ IF state = "Opened"
       THEN /\ Len(tx) + k <= TxCapacity
            /\ tx' = tx \o Take(data, k)
            /\ IF k = Len(data)
               THEN /\ lastRet' = Ret("sendUciMessage", "Ok")
                    /\ retVal' = Len(data)
               ELSE /\ lastRet' = Ret("sendUciMessage", "Error")
                    /\ UNCHANGED retVal
       ELSE /\ k = 0
            /\ lastRet' = Ret("sendUciMessage", "IllegalState")
            /\ UNCHANGED <<tx, retVal>>
    /\ UNCHANGED <<sessionVars, closeVars, deathPending, dead, readerVars,
                   rx, devOut, sent, opens, halEvents, hsCount, raced,
                   cancelWait, aborted, hup>>

\* Mutant of CoreInit: no check of the state.
CoreInitUnchecked(ok) ==
    /\ ~aborted
    /\ lockOwner = "none"
    /\ CountOf(halEvents, "POST_INIT_CPLT") < MaxCoreInits
    /\ ok
    /\ halEvents' = Append(halEvents, "POST_INIT_CPLT")
    /\ lastRet' = Ret("coreInit", "Ok")
    /\ UNCHANGED <<sessionVars, closeVars, deathPending, dead, readerVars,
                   deviceVars, opens, hsCount, raced, cancelWait, aborted,
                   extVars>>

\* coreInit(), the state lock held throughout: onHalEvent(POST_INIT_CPLT)?
\* when Opened, ILLEGAL_STATE otherwise.
CoreInit(ok) ==
    /\ ~aborted
    /\ lockOwner = "none"
    /\ CountOf(halEvents, "POST_INIT_CPLT") < MaxCoreInits
    /\ IF state = "Opened"
       THEN /\ ok \in CallbackOutcomes(handle)
            /\ IF ok
               THEN /\ halEvents' = Append(halEvents, "POST_INIT_CPLT")
                    /\ lastRet' = Ret("coreInit", "Ok")
               ELSE /\ lastRet' = Ret("coreInit", "Error")
                    /\ UNCHANGED halEvents
       ELSE /\ ok
            /\ lastRet' = Ret("coreInit", "IllegalState")
            /\ UNCHANGED halEvents
    /\ UNCHANGED <<sessionVars, closeVars, deathPending, dead, readerVars,
                   deviceVars, opens, hsCount, raced, cancelWait, aborted,
                   extVars>>

\* sessionInit(_id): Ok(()), without the state lock.
SessionInit(id) ==
    /\ ~aborted
    /\ lastRet' = Ret("sessionInit", "Ok")
    /\ UNCHANGED <<sessionVars, closeVars, deathPending, dead, readerVars,
                   deviceVars, opens, halEvents, hsCount, raced, cancelWait,
                   aborted, extVars>>

\* getSupportedAndroidUciVersion(): Ok(1), without the state lock.
GetSupportedAndroidUciVersion ==
    /\ ~aborted
    /\ lastRet' = Ret("getSupportedAndroidUciVersion", "Ok")
    /\ retVal' = 1
    /\ UNCHANGED <<sessionVars, closeVars, deathPending, dead, readerVars,
                   deviceVars, opens, halEvents, hsCount, raced, cancelWait,
                   aborted, hup>>

\* The device takes a complete frame that is not the DeviceResetCmd and
\* does not answer it.
DeviceTake ==
    /\ ~aborted
    /\ ~hup
    /\ Len(tx) >= UWB_HEADER_SIZE
    /\ Len(tx) >= FrameLength(tx)
    /\ Take(tx, FrameLength(tx)) # ResetBytes
    /\ tx' = Drop(tx, FrameLength(tx))
    /\ UNCHANGED <<sessionVars, closeVars, deathPending, dead, readerVars,
                   rx, devOut, sent, opens, ghostVars, aborted, extVars>>

\* ------------------------------------------------------- the whole system

Next ==
    \/ \E out \in OpenOutcomes : Open(out)
    \/ CloseCall
    \/ \E unlinkOk \in BOOLEAN : CloseAcquire(unlinkOk)
    \/ CloseJoin
    \/ \E n \in 0..Len(ResetBytes) : CloseWrite(n)
    \/ \E ok \in BOOLEAN : CloseClone(ok)
    \/ CloseDrain
    \/ \E ok \in BOOLEAN : CloseFinish(ok)
    \/ ClientDies
    \/ \E s \in Readers : DeathRecipient(s)
    \/ \E r \in Readers : ReaderRead(r)
    \/ \E r \in Readers : ReaderSelect(r)
    \/ \E r \in Readers : ReaderReadExact(r)
    \/ \E f \in SessionFrames : DeviceStartFrame(f, MaxSessionFrames)
    \/ DeviceEmit(SessionFine)
    \/ DeviceReset

Spec == Init /\ [][Next]_vars

\* ----------------------------- specifications of the other operations

\* Sessions with sendUciMessage, on a device that sends nothing of its
\* own.
NextOps ==
    \/ \E out \in OpenOutcomes : Open(out)
    \/ CloseCall
    \/ \E unlinkOk \in BOOLEAN : CloseAcquire(unlinkOk)
    \/ CloseJoin
    \/ \E n \in 0..Len(ResetBytes) : CloseWrite(n)
    \/ \E ok \in BOOLEAN : CloseClone(ok)
    \/ CloseDrain
    \/ \E ok \in BOOLEAN : CloseFinish(ok)
    \/ \E data \in SendData : \E k \in 0..Len(data) : SendUciMessage(data, k)
    \/ ClientDies
    \/ \E s \in Readers : DeathRecipient(s)
    \/ \E r \in Readers : ReaderRead(r)
    \/ \E r \in Readers : ReaderSelect(r)
    \/ \E r \in Readers : ReaderReadExact(r)
    \/ DeviceEmit(OpsFine)
    \/ DeviceReset
    \/ DeviceTake

SpecOps == Init /\ [][NextOps]_vars

\* Sessions with coreInit, sessionInit and getSupportedAndroidUciVersion,
\* on the same device.
NextInit ==
    \/ \E out \in OpenOutcomes : Open(out)
    \/ CloseCall
    \/ \E unlinkOk \in BOOLEAN : CloseAcquire(unlinkOk)
    \/ CloseJoin
    \/ \E n \in 0..Len(ResetBytes) : CloseWrite(n)
    \/ \E ok \in BOOLEAN : CloseClone(ok)
    \/ CloseDrain
    \/ \E ok \in BOOLEAN : CloseFinish(ok)
    \/ \E ok \in BOOLEAN : CoreInit(ok)
    \/ \E id \in SessionIds : SessionInit(id)
    \/ GetSupportedAndroidUciVersion
    \/ ClientDies
    \/ \E s \in Readers : DeathRecipient(s)
    \/ \E r \in Readers : ReaderRead(r)
    \/ \E r \in Readers : ReaderSelect(r)
    \/ \E r \in Readers : ReaderReadExact(r)
    \/ DeviceEmit(OpsFine)
    \/ DeviceReset

SpecInit == Init /\ [][NextInit]_vars

\* --------------------------------------------- reader-only specification

\* The state right after a successful open(): one session, its reader
\* started, nothing on the wire yet.
InitReader ==
    /\ state = "Opened" /\ handle = 1 /\ linked = TRUE /\ joined = FALSE
    /\ lockOwner = "none" /\ closePc = "idle" /\ chunkIdx = 1
    /\ closeTx = <<>> /\ drainBuf = <<>>
    /\ deathPending = {} /\ dead = {}
    /\ pc = [r \in Readers |-> IF r = 1 THEN "read" ELSE "idle"]
    /\ buffer = [r \in Readers |-> <<>>]
    /\ cancelled = [r \in Readers |-> FALSE]
    /\ ready = [r \in Readers |-> FALSE]
    /\ got = [r \in Readers |-> 0]
    /\ deliv = [r \in Readers |-> <<>>]
    /\ rx = <<>> /\ tx = <<>> /\ devOut = <<>> /\ sent = <<>>
    /\ opens = 1
    /\ lastRet = Ret("open", "Ok")
    /\ halEvents = <<"OPEN_CPLT">>
    /\ hsCount = 0 /\ raced = FALSE
    /\ cancelWait = [r \in Readers |-> FALSE]
    /\ aborted = FALSE
    /\ hup = FALSE
    /\ retVal = 0

NextReader ==
    \/ \E f \in ReaderFrames : DeviceStartFrame(f, MaxFrames)
    \/ DeviceEmit(ReaderFine)
    \/ ReaderRead(1)
    \/ ReaderSelect(1)
    \/ ReaderReadExact(1)

SpecReader == InitReader /\ [][NextReader]_vars

\* ------------------------------------------ end-of-file specification

\* One open session and its reader, a device that sends frames byte by
\* byte and may hang up at any moment, and a client that may die.
NextEof ==
    \/ \E f \in ReaderFrames : DeviceStartFrame(f, MaxFrames)
    \/ DeviceEmit(ReaderFine)
    \/ DeviceHangup
    \/ ReaderRead(1)
    \/ ReaderSelect(1)
    \/ ReaderReadExact(1)
    \/ ClientDies
    \/ DeathRecipient(1)

SpecEof == InitReader /\ [][NextEof]_vars

\* ------------------------------------------- specification with fairness

\* The histories sent, got and deliv record what has happened and are read
\* by no action of the program; forgetting them lets a device that never
\* stops sending be followed through finitely many states.
Forget ==
    /\ sent # <<>>
    /\ sent' = <<>>
    /\ got' = [r \in Readers |-> Len(buffer[r])]
    /\ deliv' = [r \in Readers |-> <<>>]
    /\ UNCHANGED <<sessionVars, closeVars, deathPending, dead, pc, buffer,
                   cancelled, ready, rx, tx, devOut, opens, ghostVars,
                   aborted, extVars>>

\* select! taking the cancelled() branch.
ReaderSelectCancelled(r) == ReaderSelect(r) /\ pc'[r] = "done"

\* One open session and its reader, a device that sends frames without
\* end, and a close() up to its join of the reader.
NextLive ==
    \/ /\ Len(rx) < RxCapacity
       /\ \E f \in SessionFrames : DeviceStartFrame(f, MaxFrames)
    \/ DeviceEmit(SessionFine)
    \/ ReaderRead(1)
    \/ ReaderSelect(1)
    \/ ReaderReadExact(1)
    \/ CloseCall
    \/ \E unlinkOk \in BOOLEAN : CloseAcquire(unlinkOk)
    \/ CloseJoin
    \/ Forget

\* The reader task and close() are scheduled as long as they can run
\* (tokio runs every runnable task), select! takes each branch that is
\* ready again and again sooner or later (it polls in random order), and
\* the device finishes every frame it has begun.
SpecLive ==
    /\ InitReader
    /\ [][NextLive]_vars
    /\ WF_vars(ReaderRead(1))
    /\ WF_vars(ReaderReadExact(1))
    /\ WF_vars(ReaderSelect(1))
    /\ SF_vars(ReaderSelectCancelled(1))
    /\ WF_vars(CloseJoin)
    /\ WF_vars(DeviceEmit(SessionFine))

\* ================================================================ claims

IsPrefix(s, t) == Len(s) <= Len(t) /\ Take(t, Len(s)) = s

\* Positions of close() inside the handshake, after the join.
HandshakePcs == {"write", "clone", "drain", "cplt"}

\* C1. A reader task that was spawned and has not returned exists only
\* while the session is Opened and is that session's reader. (As claimed;
\* the death recipient and a failed OPEN_CPLT refute it.)
C1_ReaderOnlyWhileOpened ==
    \A r \in Readers : ReaderAlive(r) => (state = "Opened" /\ handle = r)

\* C2. Every step that takes the session from Opened to Closed has the
\* token cancelled, the reader joined, the whole reset command written and
\* the two confirmation frames drained. (As claimed; the death recipient
\* refutes it.)
C2_EveryCloseRunsHandshake ==
    [][(state = "Opened" /\ state' = "Closed")
          => /\ cancelled[handle]
             /\ pc[handle] = "done"
             /\ joined
             /\ closePc = "cplt"
             /\ closeTx = ResetBytes
             /\ drainBuf = Confirmation]_vars

\* C3. When close() and the death recipient were pending together on an
\* Opened session and both have finished, exactly one handshake has run and
\* the session is Closed. (As claimed; the death recipient taking the lock
\* first refutes it.)
C3_RaceRunsOneHandshake ==
    (~aborted /\ raced /\ closePc = "idle" /\ deathPending = {})
        => (hsCount = 1 /\ state = "Closed")

\* C4. A step of open() taken while the session is Opened returns
\* IllegalState and changes nothing else: no reader is spawned, the session
\* fields, the readers, the transport and the hal events are as before.
C4_OpenWhileOpenedRejected ==
    [][(/\ state = "Opened"
        /\ \/ lastRet'.op = "open" /\ lastRet' # lastRet
           \/ opens' # opens)
          => /\ lastRet' = Ret("open", "IllegalState")
             /\ UNCHANGED <<sessionVars, closeVars, deathPending, dead,
                            readerVars, deviceVars, opens, halEvents,
                            hsCount, raced, cancelWait, aborted>>]_vars

C4_Witness ==
    /\ state = "Opened"
    /\ lastRet = Ret("open", "IllegalState")
    /\ ReaderAlive(handle)
    /\ deliv[handle] # <<>>

\* C5. A close() that takes the lock while the session is Closed returns
\* IllegalState, leaves the state Closed, writes nothing to the transport
\* and signals no hal event.
C5_CloseWhileClosedRejected ==
    [][(state = "Closed" /\ closePc = "lock" /\ closePc' = "idle")
          => /\ lastRet' = Ret("close", "IllegalState")
             /\ UNCHANGED <<sessionVars, lockOwner, deathPending, dead,
                            readerVars, deviceVars, opens, halEvents,
                            hsCount, aborted>>]_vars

\* The session was closed by the death recipient (no CLOSE_CPLT was ever
\* signalled) and a close() after it has returned IllegalState.
C5_Witness ==
    /\ state = "Closed"
    /\ lastRet = Ret("close", "IllegalState")
    /\ opens = 1
    /\ dead = {1}
    /\ halEvents = <<"OPEN_CPLT">>

\* C6. While close() is in its handshake (from the first write of the reset
\* command until it returns) the session's reader task has returned and been
\* joined, with its token cancelled: it takes no further step, so it reads
\* no byte of the confirmation.
C6_HandshakeAfterReaderStopped ==
    (closePc \in HandshakePcs)
        => /\ state = "Opened"
           /\ lockOwner = "close"
           /\ cancelled[handle]
           /\ pc[handle] = "done"
           /\ joined

\* close() is reading the confirmation of a session whose reader had read
\* bytes before it was stopped.
C6_Witness ==
    /\ closePc = "drain"
    /\ drainBuf # <<>>
    /\ got[handle] > 0

\* C7. Once close() reads the confirmation the reset command has been
\* written in full, and close() gets to CLOSE_CPLT only with the 10
\* confirmation bytes read. (As claimed; a short write refutes it.)
C7_ResetFullyWrittenBeforeDrain ==
    /\ (closePc \in {"drain", "cplt"}) => closeTx = ResetBytes
    /\ (closePc = "cplt") => drainBuf = Confirmation

\* C8. With one reader on the stream and the client accepting the frames,
\* the frames passed to onUciMessage are a prefix of the frames the device
\* sent, no byte is lost or reordered between the device and the reader, and
\* once every byte sent has been read the reader has delivered every frame.
C8_FramesDeliveredInOrder ==
    /\ IsPrefix(deliv[1], sent)
    /\ Flatten(deliv[1]) \o buffer[1] \o rx \o devOut = Flatten(sent)
    /\ (~aborted /\ devOut = <<>> /\ rx = <<>>) => deliv[1] = sent

\* Two frames of different types were sent and both were delivered.
C8_Witness ==
    /\ deliv[1] = <<DataFrame, <<64, 0, 1, 1, 7>> >>
    /\ sent = deliv[1]
    /\ pc[1] = "select"

\* The payload length the frame format declares for a delivered frame.
DeclaredPayload(f) ==
    IF f[1] \div 32 = 0 THEN f[3] + 256 * f[4] ELSE f[4]

\* C9. Every frame passed to onUciMessage is 4 + L bytes long, L being the
\* little-endian 16-bit value of bytes 2 and 3 for a data frame and byte 3
\* alone for any other message type.
C9_DeliveredLength ==
    \A r \in Readers :
        \A i \in 1..Len(deliv[r]) :
            Len(deliv[r][i]) = UWB_HEADER_SIZE + DeclaredPayload(deliv[r][i])

\* A data frame of 256 payload bytes and a non-data frame whose byte 2 is
\* not zero were delivered.
C9_Witness ==
    deliv[1] = <<LongDataFrame, <<64, 0, 1, 1, 7>> >>

\* C10 as claimed: once the token was cancelled while the reader sat in
\* select!, the reader consumes no further byte. (Refuted: readiness and
\* cancellation pending together let select! take the readable branch.)
C10_CancelWhileWaitingReadsNothing ==
    [][\A r \in Readers : cancelWait[r] => got'[r] = got[r]]_vars

\* C10 as amended: once the token was cancelled while the reader sat in
\* select!, the reader leaves select! only by returning, with no byte
\* consumed, whenever no read readiness is pending; and whenever it returns
\* it has consumed exactly the bytes of the frames it delivered.
C10_CancelWhileWaitingNoPartialFrame ==
    [][\A r \in Readers :
          cancelWait[r] =>
            /\ (pc[r] = "select" /\ ~ready[r])
                   => /\ pc'[r] \in {"select", "done"}
                      /\ got'[r] = got[r]
            /\ (pc'[r] = "done")
                   => /\ buffer'[r] = <<>>
                      /\ got'[r] = TotalLen(deliv'[r])]_vars

\* The reader returned from select! with a byte of a further frame readable
\* and untouched.
C10_Witness ==
    \E r \in Readers :
        /\ cancelWait[r]
        /\ pc[r] = "done"
        /\ got[r] = 0
        /\ rx # <<>>

\* A step in which sendUciMessage returned or put bytes on the line.
SendStep ==
    /\ lastRet'.op = "sendUciMessage"
    /\ \/ lastRet' # lastRet
       \/ retVal' # retVal
       \/ (Len(tx') > Len(tx) /\ closeTx' = closeTx)

\* C11. sendUciMessage on a Closed session returns IllegalState and writes
\* nothing; on an Opened session it either puts the whole message on the
\* line and returns its length, or returns the write error with no more
\* than a proper prefix written; in every case the session, the token, the
\* readers and the incoming bytes are as before.
C11_SendWritesAllOrFails ==
    [][SendStep
          => /\ UNCHANGED <<sessionVars, closeVars, readerVars, deathPending,
                            dead, rx, halEvents, opens, aborted>>
             /\ state = "Closed"
                   => (lastRet'.res = "IllegalState" /\ tx' = tx)
             /\ state = "Opened"
                   => \E data \in SendData :
                          \/ /\ lastRet'.res = "Ok"
                             /\ tx' = tx \o data
                             /\ retVal' = Len(data)
                          \/ /\ lastRet'.res = "Error"
                             /\ \E k \in 0..(Len(data) - 1) :
                                    tx' = tx \o Take(data, k)]_vars

\* A whole message was sent on an Opened session and its length returned.
C11_Witness ==
    /\ state = "Opened"
    /\ lastRet = Ret("sendUciMessage", "Ok")
    /\ retVal = UWB_HEADER_SIZE
    /\ \E data \in SendData : tx = data

\* C12. While close() holds the state lock, from the step that fires the
\* token on, no sendUciMessage returns or writes, no open() returns or
\* spawns a reader, no death recipient runs, the bytes put on the line are
\* those of the reset command, and the state changes only by close()
\* storing Closed; and a session left Opened with its token fired and the
\* lock free is never Closed afterwards, so that every stretch from the
\* firing of a token to the state becoming Closed lies inside one tenure of
\* the lock.
C12_SerializedByStateLock ==
    [][/\ lockOwner = "close"
          => /\ ~SendStep
             /\ lastRet' # lastRet => lastRet'.op = "close"
             /\ opens' = opens
             /\ deathPending \subseteq deathPending'
             /\ Len(tx') > Len(tx)
                   => (closePc = "write" /\ IsPrefix(closeTx', ResetBytes)
                       /\ tx' = tx \o Drop(closeTx', Len(closeTx)))
             /\ state' # state => closePc = "cplt"
       /\ (state = "Opened" /\ cancelled[handle] /\ lockOwner = "none")
          => state' = "Opened"]_vars

\* close() is writing the reset command on a line that already holds a
\* message sent earlier.
C12_Witness ==
    /\ lockOwner = "close"
    /\ closePc = "clone"
    /\ \E data \in SendData : tx = data \o ResetBytes

\* A step in which coreInit, sessionInit or getSupportedAndroidUciVersion
\* returned.
StatusStep ==
    /\ lastRet'.op \in {"coreInit", "sessionInit",
                        "getSupportedAndroidUciVersion"}
    /\ lastRet' # lastRet \/ halEvents' # halEvents \/ retVal' # retVal

\* C13. coreInit returns IllegalState on a Closed session and signals
\* nothing; on an Opened session it calls onHalEvent(POST_INIT_CPLT) and
\* returns Ok, or the callback's error when the client did not take the
\* event; sessionInit returns Ok in either state and
\* getSupportedAndroidUciVersion returns its constant; no step of the three
\* changes the session, a token, a reader, the line, or the progress of a
\* close().
C13_StatusOperationsChangeNothing ==
    [][StatusStep
          => /\ UNCHANGED <<sessionVars, closeVars, readerVars, deathPending,
                            dead, deviceVars, opens, aborted, hup>>
             /\ lastRet'.op = "coreInit"
                   => IF state = "Closed"
                      THEN /\ lastRet'.res = "IllegalState"
                           /\ halEvents' = halEvents
                      ELSE \/ /\ lastRet'.res = "Ok"
                              /\ halEvents' =
                                     Append(halEvents, "POST_INIT_CPLT")
                           \/ /\ lastRet'.res = "Error"
                              /\ halEvents' = halEvents
             /\ lastRet'.op = "sessionInit"
                   => (lastRet'.res = "Ok" /\ halEvents' = halEvents)
             /\ lastRet'.op = "getSupportedAndroidUciVersion"
                   => (lastRet'.res = "Ok" /\ halEvents' = halEvents)]_vars

\* coreInit returned Ok on an Opened session after POST_INIT_CPLT.
C13_Witness ==
    /\ state = "Opened"
    /\ lastRet = Ret("coreInit", "Ok")
    /\ halEvents = <<"OPEN_CPLT", "POST_INIT_CPLT">>

\* C14. A reader that has returned because its token was cancelled holds no
\* byte of an unfinished frame: the bytes it took off the line are exactly
\* the bytes of the frames it delivered.
C14_CancelledReaderAtFrameBoundary ==
    \A r \in Readers :
        (pc[r] = "done" /\ cancelled[r])
            => (buffer[r] = <<>> /\ got[r] = TotalLen(deliv[r]))

\* A reader whose token was cancelled while it was not waiting in select!
\* has returned after delivering a frame.
C14_Witness ==
    \E r \in Readers :
        /\ pc[r] = "done"
        /\ cancelled[r]
        /\ ~cancelWait[r]
        /\ deliv[r] # <<>>

\* C15. At most one reader task that was spawned has not returned. (As
\* claimed; an open() after the death recipient, or after an open() whose
\* OPEN_CPLT failed, refutes it.)
C15_AtMostOneReader ==
    Cardinality({r \in Readers : ReaderAlive(r)}) <= 1

\* A step in which open() returned.
OpenStep ==
    /\ lastRet'.op = "open"
    /\ lastRet' # lastRet \/ opens' # opens

\* C17. A step in which open() returns an error leaves the session as it
\* was and starts no reader. (As claimed; a failing onHalEvent(OPEN_CPLT)
\* refutes it.)
C17_FailedOpenLeavesNothing ==
    [][(OpenStep /\ lastRet'.res # "Ok")
          => (UNCHANGED <<sessionVars, pc, opens>>)]_vars

\* A step of the reader of session 1 made on a line that has hung up and is
\* empty: its read returned Ok(0).
EofStep ==
    /\ hup
    /\ rx = <<>>
    /\ pc[1] \in {"read", "hdr", "payload"}
    /\ pc'[1] # pc[1] \/ aborted' # aborted

\* C16. At end of file, before the first byte of a header, inside a header
\* or inside a payload, the reader returns without a panic and without
\* delivering anything, and the session is left as it was. (As claimed;
\* end of file inside a frame refutes it.)
C16_EofExitsNormally ==
    [][EofStep
          => /\ pc'[1] = "done"
             /\ ~aborted'
             /\ deliv' = deliv
             /\ UNCHANGED sessionVars]_vars

\* C16, amended. At end of file before the first byte of a header the
\* reader returns without a panic; inside a header or a payload read_exact
\* panics and the reader does not return; in neither case is anything
\* delivered or the session changed.
C16_EofExitsOnlyAtFrameBoundary ==
    [][EofStep
          => /\ IF pc[1] = "read"
                THEN pc'[1] = "done" /\ ~aborted'
                ELSE pc'[1] = pc[1] /\ aborted'
             /\ deliv' = deliv
             /\ UNCHANGED sessionVars]_vars

\* The reader has returned at end of file after delivering a frame, and the
\* session is still Opened.
C16_Witness ==
    /\ hup
    /\ pc[1] = "done"
    /\ ~cancelled[1]
    /\ deliv[1] # <<>>
    /\ state = "Opened"

\* C18. Whenever the state lock is free and the session is Opened, the
\* session's token has not been cancelled and its reader has not been
\* joined. (As claimed; a close() that fails after the join refutes it.)
C18_OpenedHasLiveTokenAndReader ==
    (lockOwner = "none" /\ state = "Opened")
        => (~cancelled[handle] /\ ~joined)

\* C19. In the first session, with the whole reset command written and the
\* device answering it with DeviceResetRsp then DeviceStatusNtf, the 10
\* bytes close() has read are those two frames. (As claimed; a frame the
\* device sent after the reader returned refutes it.)
C19_DrainReadsConfirmation ==
    (/\ opens = 1
     /\ closePc \in {"drain", "cplt"}
     /\ closeTx = ResetBytes
     /\ Len(drainBuf) = Len(Confirmation))
        => drainBuf = Confirmation

\* C20. Once close() has cancelled the token and waits for the reader, the
\* reader returns and close() gets to the reset write (or the process has
\* panicked). (As claimed; a device that keeps sending refutes it.)
C20_CloseGetsPastJoin ==
    (closePc = "join") ~> ((closePc = "write" /\ pc[1] = "done") \/ aborted)


====
